---- MODULE Spec2Model ----
(***************************************************************************)
(* Model of tools/color_generator.py: a script that interpolates between   *)
(* adjacent seed colours, prints every colour stop twice (hex, then        *)
(* normalised floats) and paints one band per stop into gradient.png.      *)
(*                                                                         *)
(* Python floats are IEEE-754 doubles.  They are modelled exactly: a       *)
(* double is a 53-bit mantissa (a sequence of bits, most significant       *)
(* first) with a binary exponent, and division, multiplication, int() and  *)
(* "%.4f" are computed on the bits with round-to-nearest-even.             *)
(***************************************************************************)
EXTENDS Integers, Sequences, FiniteSets, TLC

(***************************************************************************)
(* Bit strings (most significant bit first).  Carries are propagated in    *)
(* limbs of LimbBits bits so that every product stays below 2^31.          *)
(***************************************************************************)
MantBits == 53
LimbBits == 14

Pow2(n) == 2 ^ n

Base == Pow2(LimbBits)

Zeros(n) == IF n > 0 THEN [k \in 1..n |-> 0] ELSE << >>

AnyOne(bits) == \E k \in 1..Len(bits) : bits[k] = 1

RECURSIVE ValOf(_)
ValOf(bits) ==
    IF bits = << >> THEN 0
    ELSE 2 * ValOf(SubSeq(bits, 1, Len(bits) - 1)) + bits[Len(bits)]

Strip(bits) ==
    IF ~AnyOne(bits) THEN << >>
    ELSE LET first == CHOOSE k \in 1..Len(bits) :
                         bits[k] = 1 /\ \A j \in 1..(k - 1) : bits[j] = 0
         IN  SubSeq(bits, first, Len(bits))

Inc(bits) ==
    IF \A k \in 1..Len(bits) : bits[k] = 1 THEN <<1>> \o Zeros(Len(bits))
    ELSE LET last == CHOOSE k \in 1..Len(bits) :
                        bits[k] = 0 /\ \A j \in (k + 1)..Len(bits) : bits[j] = 1
         IN  [k \in 1..Len(bits) |->
                 IF k < last THEN bits[k] ELSE IF k = last THEN 1 ELSE 0]

ToLimbs(bits) ==
    LET n   == (Len(bits) + LimbBits - 1) \div LimbBits
        pad == Zeros(n * LimbBits - Len(bits)) \o bits
    IN  [j \in 1..n |-> ValOf(SubSeq(pad, (j - 1) * LimbBits + 1, j * LimbBits))]

FromLimbs(limbs) ==
    [k \in 1..(LimbBits * Len(limbs)) |->
        (limbs[((k - 1) \div LimbBits) + 1]
            \div Pow2(LimbBits - 1 - ((k - 1) % LimbBits))) % 2]

BitsOf(n) == Strip(FromLimbs(<<n \div Base, n % Base>>))

\* limbs * c for a factor c <= Base, limb by limb from the low end
RECURSIVE MulCarry(_, _, _)
MulCarry(limbs, c, carry) ==
    IF limbs = << >> THEN <<carry>>
    ELSE LET t == limbs[Len(limbs)] * c + carry
         IN  Append(MulCarry(SubSeq(limbs, 1, Len(limbs) - 1), c, t \div Base),
                    t % Base)

MulSmall(bits, c) == Strip(FromLimbs(MulCarry(ToLimbs(bits), c, 0)))

(***************************************************************************)
(* IEEE-754 doubles: [m |-> mantissa bits, e |-> exponent of the last bit] *)
(* with value ValOf(m) * 2^e; zero has the empty mantissa.                 *)
(***************************************************************************)
FZero == [m |-> << >>, e |-> 0]

\* round the exact value bits * 2^e (plus a nonzero tail when sticky = 1)
\* to MantBits bits, nearest, ties to even
RoundBits(bits, e, sticky) ==
    IF bits = << >> THEN FZero
    ELSE IF Len(bits) <= MantBits
    THEN [m |-> bits \o Zeros(MantBits - Len(bits)), e |-> e - (MantBits - Len(bits))]
    ELSE LET kept  == SubSeq(bits, 1, MantBits)
             guard == bits[MantBits + 1]
             rest  == SubSeq(bits, MantBits + 2, Len(bits))
             tail  == sticky = 1 \/ AnyOne(rest)
             up    == guard = 1 /\ (tail \/ kept[MantBits] = 1)
             r     == IF up THEN Inc(kept) ELSE kept
             e2    == e + (Len(bits) - MantBits)
         IN  IF Len(r) > MantBits
             THEN [m |-> SubSeq(r, 1, MantBits), e |-> e2 + 1]
             ELSE [m |-> r, e |-> e2]

FromInt(n) == RoundBits(BitsOf(n), 0, 0)

\* quotient limbs of rem * Base^k / d, produced until a guard bit exists
RECURSIVE DivLimbs(_, _, _, _)
DivLimbs(limbs, rem, d, e) ==
    LET bits == Strip(FromLimbs(limbs))
    IN  IF Len(bits) > MantBits \/ rem = 0
        THEN RoundBits(bits, e, IF rem = 0 THEN 0 ELSE 1)
        ELSE DivLimbs(Append(limbs, (rem * Base) \div d), (rem * Base) % d,
                      d, e - LimbBits)

\* the double n / d, for naturals n < Base^2 and 0 < d < Base
FDiv(n, d) == DivLimbs(<<(n \div d) \div Base, (n \div d) % Base>>, n % d, d, 0)

\* the double f * c, for a natural c that is an exact double
FMul(f, c) == RoundBits(MulSmall(f.m, c), f.e, 0)

\* int(f): truncation toward zero (f >= 0)
FTrunc(f) ==
    IF f.m = << >> THEN 0
    ELSE IF f.e >= 0 THEN ValOf(f.m) * Pow2(f.e)
    ELSE IF -f.e >= Len(f.m) THEN 0
    ELSE ValOf(SubSeq(f.m, 1, Len(f.m) + f.e))

\* the exact value bits * 2^e rounded to an integer, nearest, ties to even
RoundInt(bits, e) ==
    IF bits = << >> THEN 0
    ELSE IF e >= 0 THEN ValOf(bits) * Pow2(e)
    ELSE LET all   == Zeros(1 - e - Len(bits)) \o bits
             n     == Len(all) + e
             ip    == ValOf(SubSeq(all, 1, n))
             guard == all[n + 1]
             rest  == SubSeq(all, n + 2, Len(all))
         IN  IF guard = 1 /\ (AnyOne(rest) \/ ip % 2 = 1) THEN ip + 1 ELSE ip

(***************************************************************************)
(* Strings are sequences of one-character strings.                         *)
(***************************************************************************)
LowerHex == <<"0", "1", "2", "3", "4", "5", "6", "7",
              "8", "9", "a", "b", "c", "d", "e", "f">>
UpperHex == <<"0", "1", "2", "3", "4", "5", "6", "7",
              "8", "9", "A", "B", "C", "D", "E", "F">>
DecDigits == <<"0", "1", "2", "3", "4", "5", "6", "7", "8", "9">>

\* str.lstrip(ch): drop every leading occurrence of ch
LStrip(str, ch) ==
    IF \A k \in 1..Len(str) : str[k] = ch THEN << >>
    ELSE LET first == CHOOSE k \in 1..Len(str) :
                         str[k] # ch /\ \A j \in 1..(k - 1) : str[j] = ch
         IN  SubSeq(str, first, Len(str))

\* int(str, 16)
HexDigit(ch) ==
    (CHOOSE k \in 1..16 : LowerHex[k] = ch \/ UpperHex[k] = ch) - 1

RECURSIVE ParseHex(_)
ParseHex(str) ==
    IF str = << >> THEN 0
    ELSE 16 * ParseHex(SubSeq(str, 1, Len(str) - 1)) + HexDigit(str[Len(str)])

\* "%.4f" % f, for 0 <= f < 10
Fmt4(f) ==
    LET t == RoundInt(MulSmall(f.m, 10000), f.e)
    IN  <<DecDigits[(t \div 10000) + 1], ".",
          DecDigits[((t \div 1000) % 10) + 1], DecDigits[((t \div 100) % 10) + 1],
          DecDigits[((t \div 10) % 10) + 1], DecDigits[(t % 10) + 1]>>

(***************************************************************************)
(* The colour library.  A Color is modelled by its three channel bytes.    *)
(***************************************************************************)
\* Color.hex_l: "#rrggbb"
hex_l(color) ==
    <<"#">> \o [k \in 1..6 |->
                  IF k % 2 = 1 THEN LowerHex[(color[(k + 1) \div 2] \div 16) + 1]
                               ELSE LowerHex[(color[k \div 2] % 16) + 1]]

\* the seed colours the runs are drawn from (two of the script's own seeds)
Palette == { <<230, 248, 0>>, <<47, 72, 88>> }

\* Color.range_to(value, steps): steps colours from self to value inclusive;
\* the intermediate colours are the library's choice
range_to(self, value, steps) ==
    { [k \in 1..steps |-> IF k = 1 THEN self ELSE IF k = steps THEN value ELSE mid] :
        mid \in Palette }

(***************************************************************************)
(* hex_to_rgba and the conversion back to bytes used for drawing           *)
(***************************************************************************)
hex_to_rgba_256(hex_color) ==
    LET h == LStrip(hex_color, "#")
    IN  <<FDiv(ParseHex(SubSeq(h, 1, 2)), 256), FDiv(ParseHex(SubSeq(h, 3, 4)), 256),
          FDiv(ParseHex(SubSeq(h, 5, 6)), 256), FromInt(1)>>

hex_to_rgba(hex_color) ==
    LET h == LStrip(hex_color, "#")
        r == FDiv(ParseHex(SubSeq(h, 1, 2)), 255)
        g == FDiv(ParseHex(SubSeq(h, 3, 4)), 255)
        b == FDiv(ParseHex(SubSeq(h, 5, 6)), 255)
    IN  <<r, g, b, FromInt(1)>>

\* int(r * 255), int(g * 255), int(b * 255), int(a * 255)
to_bytes(rgba) == [c \in 1..4 |-> FTrunc(FMul(rgba[c], 255))]

\* f"({r:.4f}, {g:.4f}, {b:.4f})"
triple_line(rgba) ==
    <<"(">> \o Fmt4(rgba[1]) \o <<",", " ">> \o Fmt4(rgba[2]) \o <<",", " ">>
            \o Fmt4(rgba[3]) \o <<")">>

(***************************************************************************)
(* The script                                                              *)
(***************************************************************************)
STEPS     == 10
STEP_SIZE == 10
WIDTH     == 50

MaxSeeds == 3

NoImage == [open |-> FALSE]

VARIABLES
    initial_colors,  \* the seed list
    colors,          \* the generated segments, one per adjacent seed pair
    i,               \* the module-level counter i
    pc,              \* position of the script
    out,             \* lines written to standard output
    width, height,   \* locals of write_image
    image,           \* the canvas: its size and the rectangles drawn on it
    y,               \* vertical offset of the next band
    k,               \* number of stops the drawing loop has consumed
    saved,           \* number of times gradient.png has been written
    closed,          \* the canvas has been released
    cv_pc, cv_in, cv_hex, cv_rgba, cv_bytes  \* the conversion on its own

script_vars == <<initial_colors, colors, i, pc, out, width, height, image, y, k,
                 saved, closed>>
conv_vars   == <<cv_pc, cv_in, cv_hex, cv_rgba, cv_bytes>>
vars        == <<script_vars, conv_vars>>

SeedLists == UNION { [1..n -> Palette] : n \in 0..MaxSeeds }

\* "for sub_array in colors: for color in sub_array": the stops in that order
RECURSIVE Stops(_)
Stops(segments) ==
    IF segments = << >> THEN << >> ELSE Head(segments) \o Stops(Tail(segments))

NumStops == Len(Stops(colors))

ScriptInit ==
    /\ colors = << >>
    /\ i = 0
    /\ out = << >>
    /\ width = 0 /\ height = 0
    /\ image = NoImage
    /\ y = 0 /\ k = 0
    /\ saved = 0
    /\ closed = FALSE

ConvIdle ==
    /\ cv_pc = "idle"
    /\ cv_in = <<0, 0, 0>>
    /\ cv_hex = << >>
    /\ cv_rgba = << >>
    /\ cv_bytes = << >>

Init ==
    /\ initial_colors \in SeedLists
    /\ pc = "gen"
    /\ ScriptInit
    /\ ConvIdle

\* lines 55-57, one iteration
GenerateSame ==
    /\ pc = "gen"
    /\ i < Len(initial_colors) - 1
    /\ \E result \in range_to(initial_colors[i + 1], initial_colors[i + 1], STEPS) :
           colors' = Append(colors, result)
    /\ i' = i + 1
    /\ UNCHANGED <<initial_colors, pc, out, width, height, image, y, k, saved,
                   closed, conv_vars>>

Generate ==
    /\ pc = "gen"
    /\ i < Len(initial_colors) - 1
    /\ \E result \in range_to(initial_colors[i + 1], initial_colors[i + 2], STEPS) :
           colors' = Append(colors, result)
    /\ i' = i + 1
    /\ UNCHANGED <<initial_colors, pc, out, width, height, image, y, k, saved,
                   closed, conv_vars>>

\* the range is exhausted; line 59
GenerateDone ==
    /\ pc = "gen"
    /\ ~(i < Len(initial_colors) - 1)
    /\ i' = 0
    /\ pc' = "print_hex"
    /\ UNCHANGED <<initial_colors, colors, out, width, height, image, y, k, saved,
                   closed, conv_vars>>

\* lines 60-63, one iteration
PrintHex ==
    /\ pc = "print_hex"
    /\ i < NumStops
    /\ out' = Append(out, hex_l(Stops(colors)[i + 1]))
    /\ i' = i + 1
    /\ UNCHANGED <<initial_colors, colors, pc, width, height, image, y, k, saved,
                   closed, conv_vars>>

\* line 65
PrintHexDone ==
    /\ pc = "print_hex"
    /\ ~(i < NumStops)
    /\ i' = 0
    /\ pc' = "print_rgb"
    /\ UNCHANGED <<initial_colors, colors, out, width, height, image, y, k, saved,
                   closed, conv_vars>>

\* lines 66-70, one iteration
PrintRgbBackwards ==
    /\ pc = "print_rgb"
    /\ i < NumStops
    /\ out' = Append(out, triple_line(hex_to_rgba(hex_l(Stops(colors)[NumStops - i]))))
    /\ i' = i + 1
    /\ UNCHANGED <<initial_colors, colors, pc, width, height, image, y, k, saved,
                   closed, conv_vars>>

PrintRgb ==
    /\ pc = "print_rgb"
    /\ i < NumStops
    /\ out' = Append(out, triple_line(hex_to_rgba(hex_l(Stops(colors)[i + 1]))))
    /\ i' = i + 1
    /\ UNCHANGED <<initial_colors, colors, pc, width, height, image, y, k, saved,
                   closed, conv_vars>>

\* line 72: call write_image(colors)
PrintRgbDone ==
    /\ pc = "print_rgb"
    /\ ~(i < NumStops)
    /\ pc' = "write_image"
    /\ UNCHANGED <<initial_colors, colors, i, out, width, height, image, y, k, saved,
                   closed, conv_vars>>

\* Image.new(mode, size, color): a negative size is rejected with ValueError
ImageNew(w, h) ==
    IF w < 0 \/ h < 0 THEN NoImage
    ELSE [open |-> TRUE, width |-> w, height |-> h, rects |-> << >>]

\* lines 17-26
CreateImage ==
    /\ pc = "write_image"
    /\ width' = WIDTH
    /\ height' = (Len(colors) - 1) * STEPS * STEP_SIZE
    /\ image' = ImageNew(width', height')
    /\ IF image'.open
       THEN y' = 0 /\ pc' = "draw"
       ELSE y' = y /\ pc' = "fault"
    /\ UNCHANGED <<initial_colors, colors, i, out, k, saved, closed, conv_vars>>

\* lines 28-35, one iteration
DrawBandTight ==
    /\ pc = "draw"
    /\ k < NumStops
    /\ LET bytes == to_bytes(hex_to_rgba(hex_l(Stops(colors)[k + 1])))
           shape == [x0 |-> 0, y0 |-> y, x1 |-> width, y1 |-> y + STEP_SIZE - 2,
                     fill |-> <<bytes[1], bytes[2], bytes[3]>>]
       IN  image' = [image EXCEPT !.rects = Append(@, shape)]
    /\ y' = y + STEP_SIZE - 2
    /\ k' = k + 1
    /\ UNCHANGED <<initial_colors, colors, i, pc, out, width, height, saved, closed,
                   conv_vars>>

DrawBandPerSegment ==
    /\ pc = "draw"
    /\ k < NumStops
    /\ LET bytes == to_bytes(hex_to_rgba(hex_l(Stops(colors)[k + 1])))
           shape == [x0 |-> 0, y0 |-> y, x1 |-> width, y1 |-> y + STEP_SIZE - 2,
                     fill |-> <<bytes[1], bytes[2], bytes[3]>>]
       IN  image' = [image EXCEPT !.rects = Append(@, shape)]
    /\ y' = y + STEP_SIZE
    /\ k' = k + STEPS
    /\ UNCHANGED <<initial_colors, colors, i, pc, out, width, height, saved, closed,
                   conv_vars>>

DrawBand ==
    /\ pc = "draw"
    /\ k < NumStops
    /\ LET bytes == to_bytes(hex_to_rgba(hex_l(Stops(colors)[k + 1])))
           shape == [x0 |-> 0, y0 |-> y, x1 |-> width, y1 |-> y + STEP_SIZE - 2,
                     fill |-> <<bytes[1], bytes[2], bytes[3]>>]
       IN  image' = [image EXCEPT !.rects = Append(@, shape)]
    /\ y' = y + STEP_SIZE
    /\ k' = k + 1
    /\ UNCHANGED <<initial_colors, colors, i, pc, out, width, height, saved, closed,
                   conv_vars>>

\* the loops are exhausted; line 37
DrawDone ==
    /\ pc = "draw"
    /\ ~(k < NumStops)
    /\ pc' = "save"
    /\ UNCHANGED <<initial_colors, colors, i, out, width, height, image, y, k, saved,
                   closed, conv_vars>>

\* line 38, the file is written
SaveImageInLoop ==
    /\ pc \in {"draw", "save"}
    /\ saved' = saved + 1
    /\ pc' = IF pc = "save" THEN "close" ELSE pc
    /\ UNCHANGED <<initial_colors, colors, i, out, width, height, image, y, k,
                   closed, conv_vars>>

SaveImage ==
    /\ pc = "save"
    /\ saved' = saved + 1
    /\ pc' = "close"
    /\ UNCHANGED <<initial_colors, colors, i, out, width, height, image, y, k,
                   closed, conv_vars>>

\* line 38, the write fails (unwritable path): the exception is not caught
SaveFault ==
    /\ pc = "save"
    /\ pc' = "fault"
    /\ UNCHANGED <<initial_colors, colors, i, out, width, height, image, y, k, saved,
                   closed, conv_vars>>

\* line 39
CloseImage ==
    /\ pc = "close"
    /\ closed' = TRUE
    /\ pc' = "done"
    /\ UNCHANGED <<initial_colors, colors, i, out, width, height, image, y, k, saved,
                   conv_vars>>

Next ==
    \/ Generate
    \/ GenerateDone
    \/ PrintHex
    \/ PrintHexDone
    \/ PrintRgb
    \/ PrintRgbDone
    \/ CreateImage
    \/ DrawBand
    \/ DrawDone
    \/ SaveImage
    \/ SaveFault
    \/ CloseImage

Spec == Init /\ [][Next]_vars

(***************************************************************************)
(* The colour conversion on its own: every byte value, in every channel,   *)
(* goes through hex_l, hex_to_rgba and the conversion of line 30.          *)
(***************************************************************************)
ConvInputs == { <<v, 255 - v, (v + 128) % 256>> : v \in 0..255 }

ConvInit ==
    /\ initial_colors = << >>
    /\ pc = "conv"
    /\ ScriptInit
    /\ cv_pc = "color"
    /\ cv_in \in ConvInputs
    /\ cv_hex = << >>
    /\ cv_rgba = << >>
    /\ cv_bytes = << >>

ConvHex ==
    /\ cv_pc = "color"
    /\ cv_hex' = hex_l(cv_in)
    /\ cv_pc' = "hex"
    /\ UNCHANGED <<script_vars, cv_in, cv_rgba, cv_bytes>>

ConvRgba ==
    /\ cv_pc = "hex"
    /\ cv_rgba' = hex_to_rgba(cv_hex)
    /\ cv_pc' = "rgba"
    /\ UNCHANGED <<script_vars, cv_in, cv_hex, cv_bytes>>

ConvBytes ==
    /\ cv_pc = "rgba"
    /\ cv_bytes' = to_bytes(cv_rgba)
    /\ cv_pc' = "bytes"
    /\ UNCHANGED <<script_vars, cv_in, cv_hex, cv_rgba>>

ConvNext == ConvHex \/ ConvRgba \/ ConvBytes

SpecConv == ConvInit /\ [][ConvNext]_vars

(***************************************************************************)
(* Properties                                                              *)
(***************************************************************************)
SeedCount == Len(initial_colors)

IsHexLine(line) == line[1] = "#"

\* C1: for a seed list of length seed_count >= 2 the canvas created by
\* write_image has width 50 and height (seed_count - 1) * STEPS * STEP_SIZE.
\* The script computes the height from len(colors), the number of segments,
\* which is already seed_count - 1, so the canvas is one segment too short.
C1_CanvasSize ==
    (image.open /\ SeedCount >= 2) =>
        /\ image.width = 50
        /\ image.height = (SeedCount - 1) * STEPS * STEP_SIZE

\* C2: the canvas height exactly fits all bands: every band the drawing loop
\* is about to draw lies inside the canvas (0 <= y and y + STEP_SIZE <= height)
\* and when the loop has ended the offset y equals the canvas height.
C2_BandsFitCanvas ==
    /\ (pc = "draw" /\ k < NumStops) => (0 <= y /\ y + STEP_SIZE <= image.height)
    /\ pc \in {"save", "close", "done"} => y = image.height

\* C3: the drawing loop draws one rectangle per colour stop it has consumed,
\* and when write_image has finished drawing the number of rectangles equals
\* the number of colour stops generated, (seed_count - 1) * STEPS.
C3_BandsEqualStops ==
    /\ image.open => Len(image.rects) = k
    /\ pc \in {"save", "close", "done"} =>
           /\ Len(image.rects) = NumStops
           /\ Len(image.rects) = (SeedCount - 1) * STEPS

C3_Witness == pc = "done" /\ SeedCount = 3 /\ Len(image.rects) = 2 * STEPS

C5_TwoPasses ==
    /\ \A a \in 1..(Len(out) - 1) : ~IsHexLine(out[a]) => ~IsHexLine(out[a + 1])
    /\ pc \in {"gen", "conv"} => out = << >>
    /\ pc = "print_hex" =>
           /\ Len(out) = i
           /\ i > 0 => out[i] = hex_l(Stops(colors)[i])
    /\ pc = "print_rgb" =>
           /\ Len(out) = NumStops + i
           /\ i > 0 => out[NumStops + i] = triple_line(hex_to_rgba(out[i]))
    /\ pc \notin {"gen", "conv", "print_hex", "print_rgb"} => Len(out) = 2 * NumStops
    /\ pc = "write_image" =>
           \A n \in 1..NumStops :
               /\ IsHexLine(out[n])
               /\ out[n] = hex_l(Stops(colors)[n])
               /\ ~IsHexLine(out[NumStops + n])
               /\ out[NumStops + n] = triple_line(hex_to_rgba(out[n]))

C5_Witness ==
    /\ pc = "write_image"
    /\ Len(out) = 4 * STEPS
    /\ out[1] # out[STEPS]
    /\ out[2 * STEPS + 1] # out[3 * STEPS]

\* C6: the k-th colour stop in traversal order (0-based) is drawn as the
\* rectangle from (0, k * STEP_SIZE) to (width, k * STEP_SIZE + STEP_SIZE - 2)
\* filled with that stop's colour; y has advanced by STEP_SIZE per band drawn
\* and not otherwise; the rows of consecutive bands do not overlap.
C6_BandGeometry ==
    image.open =>
        /\ y = Len(image.rects) * STEP_SIZE
        /\ \A j \in 1..Len(image.rects) :
               /\ image.rects[j].x0 = 0
               /\ image.rects[j].y0 = (j - 1) * STEP_SIZE
               /\ image.rects[j].x1 = 50
               /\ image.rects[j].y1 = (j - 1) * STEP_SIZE + STEP_SIZE - 2
               /\ image.rects[j].fill = Stops(colors)[j]
        /\ \A j \in 1..(Len(image.rects) - 1) :
               image.rects[j].y1 < image.rects[j + 1].y0

C6_Witness ==
    /\ pc = "done"
    /\ Len(image.rects) = 2 * STEPS
    /\ image.rects[2 * STEPS].y0 = 190
    /\ image.rects[1].fill # image.rects[2 * STEPS].fill

C8_DegenerateCanvas ==
    (SeedCount <= 1 /\ pc \in {"draw", "save", "close", "done", "fault"}) =>
        /\ colors = << >>
        /\ image.open => image.rects = << >>
        /\ height = 0

\* C9: for every channel byte v given as a two-digit hex pair, hex_to_rgba
\* yields v / 255 (it prints as v / 255 rounded to four decimals) with alpha
\* 1.0, and the truncating int(value * 255) gives back exactly v (and 255 for
\* alpha): no deviation, neither downward nor upward.
C9_RoundTrip ==
    /\ cv_pc \in {"rgba", "bytes"} =>
           /\ cv_rgba[4] = FromInt(1)
           /\ \A c \in 1..3 :
                  RoundInt(MulSmall(cv_rgba[c].m, 10000), cv_rgba[c].e)
                      = (cv_in[c] * 20000 + 255) \div 510
    /\ cv_pc = "bytes" => cv_bytes = <<cv_in[1], cv_in[2], cv_in[3], 255>>

C9_Witness ==
    /\ cv_pc = "bytes"
    /\ cv_in = <<254, 1, 126>>
    /\ cv_bytes = <<254, 1, 126, 255>>

====
